---- MODULE Spec2Model ----
(***************************************************************************)
(* Camillo: a middleware chain for net/http with a per-request context     *)
(* carried through a process-wide context store.                            *)
(*                                                                         *)
(* The dispatch machine (Spec, SpecConc) runs Camillo.ServeHTTP, the       *)
(* middleware nodes and the Wrap adapter as an explicit call stack per     *)
(* goroutine; the store machine (SpecStore) drives the two contextStore    *)
(* variants (single slot and stack) call by call.                          *)
(***************************************************************************)
EXTENDS Integers, Sequences, FiniteSets, TLC

VARIABLES
    camillo,             \* instance name -> [ctx, handlers, middleware]   (type Camillo)
    sharedContextStore,  \* the single-slot contextStore: [made, contexts]
    stackStore,          \* the stack contextStore: [made, contexts]
    ctxTab,              \* allocated contexts: id -> [parent, by]
    cancelled,           \* contexts whose cancel function has run
    stat,                \* request -> "ready" | "running" | "done" | "crashed"
    stack,               \* request -> call stack of the goroutine serving it
    panicking,           \* request -> a panic is unwinding the goroutine
    trace,               \* request -> what the goroutine's handlers observed
    resp,                \* request -> the raw response: [status, body]
    workers,             \* how many requests the host server runs at once
    last,                \* the last store call of the store machine
    mtx,                 \* store variant -> its RWMutex: [writer, readers]
    ops                  \* goroutine -> the store call it is in, step by step

vars == <<camillo, sharedContextStore, stackStore, ctxTab, cancelled, stat,
          stack, panicking, trace, resp, workers, last, mtx, ops>>

(***************************************************************************)
(* Bounds and input sets                                                   *)
(***************************************************************************)
MaxHandlers == 3     \* longest handler list given to the outer instance
MaxStack == 2        \* deepest per-request stack the store machine pushes

Reqs == {"r1", "r2"}             \* *http.Request identities
NilCtx == 0                      \* a nil context.Context
Background == 1                  \* context.Background()
StoreCtxs == {11, 12}            \* contexts handed to the store machine

(***************************************************************************)
(* Contexts                                                                *)
(***************************************************************************)
\* context.WithCancel / context.WithValue: a fresh child of parent.
NewCtx(tab, parent, r) == Append(tab, [parent |-> parent, by |-> r])

RECURSIVE Done(_, _, _)
\* ctx.Done() is closed: ctx or one of its ancestors was cancelled.
Done(tab, canc, c) ==
    IF c = NilCtx \/ c > Len(tab) THEN FALSE
    ELSE c \in canc \/ Done(tab, canc, tab[c].parent)

(***************************************************************************)
(* The single-slot context store                                           *)
(***************************************************************************)
EmptyStore == [made |-> FALSE, contexts |-> << >>]

Get(s, req) ==
    IF ~s.made THEN NilCtx
    ELSE IF req \in DOMAIN s.contexts THEN s.contexts[req] ELSE NilCtx

Add_Global(s, req, ctx) ==
    [made |-> TRUE, contexts |-> [q \in Reqs |-> ctx]]

Add(s, req, ctx) ==
    LET m == IF s.made THEN s.contexts ELSE << >>
    IN  [made |-> TRUE,
         contexts |-> [q \in (DOMAIN m) \cup {req} |-> IF q = req THEN ctx ELSE m[q]]]

Remove_Keep(s, req) == s

Remove(s, req) ==
    IF ~s.made THEN s
    ELSE [s EXCEPT !.contexts = [q \in (DOMAIN s.contexts) \ {req} |-> s.contexts[q]]]

(***************************************************************************)
(* The stack context store                                                 *)
(***************************************************************************)
StackGet(s, req) ==
    IF ~s.made THEN NilCtx
    ELSE LET stk == IF req \in DOMAIN s.contexts THEN s.contexts[req] ELSE << >>
         IN  IF Len(stk) = 0 THEN NilCtx ELSE stk[Len(stk)]

Push(s, req, ctx) ==
    LET m == IF s.made THEN s.contexts ELSE << >>
        old == IF req \in DOMAIN m THEN m[req] ELSE << >>
    IN  [made |-> TRUE,
         contexts |-> [q \in (DOMAIN m) \cup {req} |->
                          IF q = req THEN Append(old, ctx) ELSE m[q]]]

Pop_KeepsEmpty(s, req, ctx) ==
    IF ~s.made THEN [store |-> s, panicked |-> FALSE]
    ELSE LET stk == IF req \in DOMAIN s.contexts THEN s.contexts[req] ELSE << >>
         IN  IF Len(stk) = 0 \/ stk[Len(stk)] # ctx THEN [store |-> s, panicked |-> TRUE]
             ELSE [store |-> [s EXCEPT !.contexts[req] = SubSeq(stk, 1, Len(stk) - 1)],
                   panicked |-> FALSE]

\* Pop returns [store, panicked]: the store after the call and whether the
\* call panicked with "unbalanced Push/Pop calls".
Pop(s, req, ctx) ==
    IF ~s.made THEN [store |-> s, panicked |-> FALSE]
    ELSE LET stk == IF req \in DOMAIN s.contexts THEN s.contexts[req] ELSE << >>
         IN  IF Len(stk) = 0 THEN [store |-> s, panicked |-> TRUE]
             ELSE IF stk[Len(stk)] # ctx THEN [store |-> s, panicked |-> TRUE]
             ELSE LET rest == SubSeq(stk, 1, Len(stk) - 1)
                  IN  [store |->
                         IF Len(rest) = 0
                         THEN [s EXCEPT !.contexts =
                                 [q \in (DOMAIN s.contexts) \ {req} |-> s.contexts[q]]]
                         ELSE [s EXCEPT !.contexts[req] = rest],
                       panicked |-> FALSE]

(***************************************************************************)
(* Handlers and the chain builder                                          *)
(***************************************************************************)
\* A Handler value: kind says what its ServeHTTP does, inst/id name the
\* handler list and the position it was added at, h is the http.Handler a
\* Wrap adapter holds.
Handler(kind, inst, id, h) == [kind |-> kind, inst |-> inst, id |-> id, h |-> h]

NilHandler == Handler("nil", "", 0, "")      \* a nil Handler interface
VoidHandler == Handler("void", "", 0, "")    \* voidMiddleware's empty HandlerFunc

\* A *middleware is a sequence: << >> is nil, <<m>> points to m.
EmptyMiddleware == [handler |-> NilHandler, next |-> << >>]    \* middleware{}

voidMiddleware_NilNext == [handler |-> VoidHandler, next |-> << >>]

voidMiddleware == [handler |-> VoidHandler, next |-> <<EmptyMiddleware>>]

RECURSIVE build_SkipSecond(_)
build_SkipSecond(handlers) ==
    IF Len(handlers) = 0 THEN voidMiddleware
    ELSE [handler |-> handlers[1],
          next |-> << IF Len(handlers) > 2 THEN build_SkipSecond(Tail(Tail(handlers)))
                      ELSE voidMiddleware >>]

RECURSIVE build(_)
build(handlers) ==
    IF Len(handlers) = 0 THEN voidMiddleware
    ELSE [handler |-> handlers[1],
          next |-> << IF Len(handlers) > 1 THEN build(Tail(handlers))
                      ELSE voidMiddleware >>]

NewWithContext(ctx, handlers) ==
    [ctx |-> ctx, handlers |-> handlers, middleware |-> build(handlers)]

New(handlers) == NewWithContext(Background, handlers)

(***************************************************************************)
(* Camillo instances                                                       *)
(***************************************************************************)
FuncKinds == {"pass", "derive", "stop", "panic"}   \* what a HandlerFunc may do
BuiltinKinds == {"recovery", "logger"}             \* NewRecovery(), NewLogger()
PlainHandlers == {"echo", "subA", "subB"}          \* http.Handlers given to Wrap
SubInsts == {"subA", "subB"}                       \* the plain handlers that are Camillo instances

\* Wrap(handler): the adapter's HandlerFunc, holding the http.Handler.
Wrap(inst, id, handler) == Handler("wrap", inst, id, handler)

\* (n *Camillo) Use: append and rebuild the chain from the whole list.
Use_NoRebuild(n, handler) == [n EXCEPT !.handlers = Append(n.handlers, handler)]

\* n.handlers = append(n.handlers, handler); n.middleware = build(n.handlers)
Use(n, handler) ==
    LET hs == Append(n.handlers, handler)
    IN  [n EXCEPT !.handlers = hs, !.middleware = build(hs)]

\* Mounted sub-instances, as in the README's route-specific middleware.
SubA == New(<<Handler("derive", "subA", 1, ""), Wrap("subA", 2, "echo")>>)
SubB == New(<<Handler("panic", "subB", 1, "")>>)

(***************************************************************************)
(* The response                                                            *)
(***************************************************************************)
NoResponse == [status |-> 0, body |-> << >>]

WriteHeader(w, code) == IF w.status = 0 THEN [w EXCEPT !.status = code] ELSE w

Write(w, b) == [status |-> IF w.status = 0 THEN 200 ELSE w.status,
                body |-> Append(w.body, b)]

(***************************************************************************)
(* Call stacks                                                             *)
(***************************************************************************)
\* fn: "Camillo" (Camillo.ServeHTTP), "middleware" (middleware.ServeHTTP and
\* the handler it calls) or "plain" (the http.Handler behind Wrap).
\* ctx is the context the call received, nctx the one it passes on.
CamilloFrame(inst) ==
    [fn |-> "Camillo", pc |-> "get", inst |-> inst, m |-> EmptyMiddleware,
     ctx |-> NilCtx, nctx |-> NilCtx, own |-> FALSE, h |-> ""]

MiddlewareFrame_DropsCtx(m, ctx) ==
    [fn |-> "middleware", pc |-> "call", inst |-> m.handler.inst, m |-> m,
     ctx |-> Background, nctx |-> NilCtx, own |-> FALSE, h |-> m.handler.h]

\* An activation of middleware.ServeHTTP(ctx, rw, r) on node m.
MiddlewareFrame(m, ctx) ==
    [fn |-> "middleware", pc |-> "call", inst |-> m.handler.inst, m |-> m,
     ctx |-> ctx, nctx |-> NilCtx, own |-> FALSE, h |-> m.handler.h]

PlainFrame(h) ==
    [fn |-> "plain", pc |-> "call", inst |-> "", m |-> EmptyMiddleware,
     ctx |-> NilCtx, nctx |-> NilCtx, own |-> FALSE, h |-> h]

Depth(r) == Len(stack[r])
Top(r) == stack[r][Depth(r)]
Running(r) == stat[r] = "running" /\ Depth(r) > 0 /\ ~panicking[r]
At(r, fn, pc) == Running(r) /\ Top(r).fn = fn /\ Top(r).pc = pc

\* The call stack after the top frame moved to pc (with fields changed) and
\* called the frames in callee.
Replaced(r, f) == [stack EXCEPT ![r] = [@ EXCEPT ![Depth(r)] = f]]
Called(r, f, callee) == [stack EXCEPT ![r] = Append([@ EXCEPT ![Depth(r)] = f], callee)]
Popped(r) == SubSeq(stack[r], 1, Depth(r) - 1)

\* What the goroutine's status is once its stack is s.
StatAfter(r, s, crashed) ==
    IF Len(s) > 0 THEN stat[r] ELSE IF crashed THEN "crashed" ELSE "done"

\* What a handler observed: ev at handler id of list inst, holding context
\* ctx; val is what a Logger printed there.
Noted(ev, f, ctx, val) ==
    [ev |-> ev, inst |-> f.inst, id |-> f.m.handler.id, ctx |-> ctx, val |-> val]
Event(ev, f, ctx) == Noted(ev, f, ctx, << >>)
Logged(r, e) == [trace EXCEPT ![r] = Append(@, e)]

\* middleware.ServeHTTP evaluates the method value m.next.ServeHTTP and calls
\* m.handler.ServeHTTP: a nil next or a nil handler is a nil dereference.
Faults(m) == m.next = << >> \/ m.handler = NilHandler
Kind(r, k) == ~Faults(Top(r).m) /\ Top(r).m.handler.kind = k

(***************************************************************************)
(* Setup: Use, UseFunc, UseHandler on the outer instance                   *)
(***************************************************************************)
Setup == \A r \in Reqs : stat[r] = "ready"

machineVars == <<stackStore, last, workers, mtx, ops>>

\* n.UseFunc(f): a context-aware handler function of kind k.
UseFunc(k) ==
    /\ Setup /\ Len(camillo["n"].handlers) < MaxHandlers
    /\ camillo' = [camillo EXCEPT !["n"] =
                      Use(@, Handler(k, "n", Len(@.handlers) + 1, ""))]
    /\ UNCHANGED <<sharedContextStore, ctxTab, cancelled, stat, stack, panicking,
                   trace, resp, machineVars>>

\* n.UseHandler(h): Use(Wrap(h)).
UseHandler(h) ==
    /\ Setup /\ Len(camillo["n"].handlers) < MaxHandlers
    /\ camillo' = [camillo EXCEPT !["n"] =
                      Use(@, Wrap("n", Len(@.handlers) + 1, h))]
    /\ UNCHANGED <<sharedContextStore, ctxTab, cancelled, stat, stack, panicking,
                   trace, resp, machineVars>>

\* n.Use(NewRecovery()), n.Use(NewLogger()).
UseBuiltin(k) ==
    /\ Setup /\ Len(camillo["n"].handlers) < MaxHandlers
    /\ camillo' = [camillo EXCEPT !["n"] =
                      Use(@, Handler(k, "n", Len(@.handlers) + 1, ""))]
    /\ UNCHANGED <<sharedContextStore, ctxTab, cancelled, stat, stack, panicking,
                   trace, resp, machineVars>>

\* r.Method and r.URL.Path of the requests the host serves.
Method(r) == IF r = "r1" THEN "GET" ELSE "POST"
Path(r) == IF r = "r1" THEN "/hello" ELSE "/admin"

(***************************************************************************)
(* Camillo.ServeHTTP                                                       *)
(***************************************************************************)
\* The host server calls n.ServeHTTP(rw, r) on a goroutine of its own.
Serve(r) ==
    /\ stat[r] = "ready"
    /\ Cardinality({q \in Reqs : stat[q] = "running"}) < workers
    /\ stat' = [stat EXCEPT ![r] = "running"]
    /\ stack' = [stack EXCEPT ![r] = <<CamilloFrame("n")>>]
    /\ UNCHANGED <<camillo, sharedContextStore, ctxTab, cancelled, panicking,
                   trace, resp, machineVars>>

\* ctx = n.ctx; if ctx == nil { ctx = context.Background() }
BaseOf(inst) == IF camillo[inst].ctx = NilCtx THEN Background ELSE camillo[inst].ctx

CamilloGet_AlwaysFresh(r) ==
    /\ At(r, "Camillo", "get")
    /\ stack' = Replaced(r, [Top(r) EXCEPT !.pc = "new"])
    /\ UNCHANGED <<camillo, sharedContextStore, ctxTab, cancelled, stat, panicking,
                   trace, resp, machineVars>>

\* ctx = sharedContextStore.Get(r); if ctx != nil { resume }
CamilloGet(r) ==
    /\ At(r, "Camillo", "get")
    /\ LET ctx == Get(sharedContextStore, r)
       IN  IF ctx # NilCtx
           THEN /\ stack' = Replaced(r, [Top(r) EXCEPT !.pc = "run", !.ctx = ctx])
                /\ trace' = Logged(r, Event("resume", Top(r), ctx))
           ELSE /\ stack' = Replaced(r, [Top(r) EXCEPT !.pc = "new"])
                /\ trace' = trace
    /\ UNCHANGED <<camillo, sharedContextStore, ctxTab, cancelled, stat, panicking,
                   resp, machineVars>>

\* ctx, cancel := context.WithCancel(base); defer cancel();
\* sharedContextStore.Add(r, ctx); defer sharedContextStore.Remove(r)
CamilloNew(r) ==
    /\ At(r, "Camillo", "new")
    /\ LET base == BaseOf(Top(r).inst)
           ctx == Len(ctxTab) + 1
       IN  /\ ctxTab' = NewCtx(ctxTab, base, r)
           /\ sharedContextStore' = Add(sharedContextStore, r, ctx)
           /\ stack' = Replaced(r, [Top(r) EXCEPT !.pc = "run", !.ctx = ctx, !.own = TRUE])
           /\ trace' = Logged(r, Event("fresh", Top(r), ctx))
    /\ UNCHANGED <<camillo, cancelled, stat, panicking, resp, machineVars>>

\* n.middleware.ServeHTTP(ctx, NewResponseWriter(rw), r)
CamilloRun(r) ==
    /\ At(r, "Camillo", "run")
    /\ stack' = Called(r, [Top(r) EXCEPT !.pc = "ret"],
                       MiddlewareFrame(camillo[Top(r).inst].middleware, Top(r).ctx))
    /\ UNCHANGED <<camillo, sharedContextStore, ctxTab, cancelled, stat, panicking,
                   trace, resp, machineVars>>

DeferredStore_NoDefer(f, s, r) ==
    IF f.fn = "Camillo" /\ f.own /\ ~panicking[r] THEN Remove(s, r) ELSE s

\* The deferred calls of a Camillo.ServeHTTP frame, run when it exits by
\* return or by panic: Remove(r), then cancel().
DeferredStore(f, s, r) == IF f.fn = "Camillo" /\ f.own THEN Remove(s, r) ELSE s

DeferredCancel_Base(f, canc) ==
    IF f.fn = "Camillo" /\ f.own THEN canc \cup {f.ctx, ctxTab[f.ctx].parent} ELSE canc

DeferredCancel(f, canc) == IF f.fn = "Camillo" /\ f.own THEN canc \cup {f.ctx} ELSE canc

CamilloReturn(r) ==
    /\ At(r, "Camillo", "ret")
    /\ sharedContextStore' = DeferredStore(Top(r), sharedContextStore, r)
    /\ cancelled' = DeferredCancel(Top(r), cancelled)
    /\ stack' = [stack EXCEPT ![r] = Popped(r)]
    /\ stat' = [stat EXCEPT ![r] = StatAfter(r, Popped(r), FALSE)]
    /\ trace' = Logged(r, Event("exit", Top(r), Top(r).ctx))
    /\ UNCHANGED <<camillo, ctxTab, panicking, resp, machineVars>>

(***************************************************************************)
(* middleware.ServeHTTP and the handlers it calls                          *)
(***************************************************************************)
\* The context a handler function passes to next: the one it received, or a
\* child it derived (context.WithValue).
Forwarded(f, tab) == IF f.m.handler.kind = "derive" THEN Len(tab) + 1 ELSE f.ctx

\* A handler function's code before next, and its call of next(ctx, rw, r).
PassBefore(r) ==
    /\ At(r, "middleware", "call")
    /\ Kind(r, "pass") \/ Kind(r, "derive")
    /\ LET f == Top(r)
           nctx == Forwarded(f, ctxTab)
       IN  /\ ctxTab' = IF nctx = f.ctx THEN ctxTab ELSE NewCtx(ctxTab, f.ctx, r)
           /\ trace' = Logged(r, Event("before", f, f.ctx))
           /\ stack' = Called(r, [f EXCEPT !.pc = "after", !.nctx = nctx],
                              MiddlewareFrame(f.m.next[1], nctx))
    /\ UNCHANGED <<camillo, sharedContextStore, cancelled, stat, panicking, resp,
                   machineVars>>

\* A handler's code after next has returned, and its return.
HandlerReturn(r) ==
    /\ At(r, "middleware", "after")
    /\ Top(r).m.handler.kind # "logger"
    /\ trace' = Logged(r, Event("after", Top(r), Top(r).ctx))
    /\ stack' = [stack EXCEPT ![r] = Popped(r)]
    /\ stat' = [stat EXCEPT ![r] = StatAfter(r, Popped(r), FALSE)]
    /\ UNCHANGED <<camillo, sharedContextStore, ctxTab, cancelled, panicking,
                   resp, machineVars>>

Stop_CallsNext(r) ==
    /\ At(r, "middleware", "call")
    /\ Kind(r, "stop")
    /\ trace' = Logged(r, Event("before", Top(r), Top(r).ctx))
    /\ stack' = Called(r, [Top(r) EXCEPT !.pc = "after"],
                       MiddlewareFrame(Top(r).m.next[1], Top(r).ctx))
    /\ UNCHANGED <<camillo, sharedContextStore, ctxTab, cancelled, stat, panicking,
                   resp, machineVars>>

\* A handler function that writes the response and returns without calling next.
Stop(r) ==
    /\ At(r, "middleware", "call")
    /\ Kind(r, "stop")
    /\ trace' = Logged(r, Event("before", Top(r), Top(r).ctx))
    /\ resp' = [resp EXCEPT ![r] = WriteHeader(@, 403)]
    /\ stack' = [stack EXCEPT ![r] = Popped(r)]
    /\ UNCHANGED <<camillo, sharedContextStore, ctxTab, cancelled, stat, panicking,
                   machineVars>>

\* voidMiddleware's handler: an empty function.
VoidServe(r) ==
    /\ At(r, "middleware", "call")
    /\ Kind(r, "void")
    /\ stack' = [stack EXCEPT ![r] = Popped(r)]
    /\ UNCHANGED <<camillo, sharedContextStore, ctxTab, cancelled, stat, panicking,
                   trace, resp, machineVars>>

\* A panic starts: a handler function that panics, or a nil dereference in
\* middleware.ServeHTTP.
Panic(r) ==
    /\ At(r, "middleware", "call")
    /\ Faults(Top(r).m) \/ Top(r).m.handler.kind = "panic"
    /\ panicking' = [panicking EXCEPT ![r] = TRUE]
    /\ trace' = Logged(r, Event("panic", Top(r), Top(r).ctx))
    /\ UNCHANGED <<camillo, sharedContextStore, ctxTab, cancelled, stat, stack,
                   resp, machineVars>>

\* Recovery.ServeHTTP: defer func() { ... }(); next(ctx, rw, r)
RecoveryServe(r) ==
    /\ At(r, "middleware", "call")
    /\ Kind(r, "recovery")
    /\ trace' = Logged(r, Event("before", Top(r), Top(r).ctx))
    /\ stack' = Called(r, [Top(r) EXCEPT !.pc = "after", !.nctx = Top(r).ctx],
                       MiddlewareFrame(Top(r).m.next[1], Top(r).ctx))
    /\ UNCHANGED <<camillo, sharedContextStore, ctxTab, cancelled, stat, panicking,
                   resp, machineVars>>

PrintStack == TRUE    \* NewRecovery: PrintStack: true

Recovers_Never(f) == FALSE

Recovers_AnyHandler(f) == f.fn = "middleware"

\* The frame's deferred function calls recover(): a Recovery whose next is
\* running.  The panics of the model carry a value, so err != nil.
Recovers(f) ==
    f.fn = "middleware" /\ f.m.handler.kind = "recovery" /\ f.pc = "after"

\* if err := recover(); err != nil { rw.WriteHeader(500); ...; fmt.Fprintf(rw, ...) }
Recovered(w) ==
    IF PrintStack THEN Write(WriteHeader(w, 500), "PANIC") ELSE WriteHeader(w, 500)

\* A panic leaves the top frame, running the frame's deferred calls: a
\* Recovery absorbs it and returns to its caller; past the outermost frame
\* it reaches the host server.
Unwind(r) ==
    /\ stat[r] = "running" /\ panicking[r] /\ Depth(r) > 0
    /\ sharedContextStore' = DeferredStore(Top(r), sharedContextStore, r)
    /\ cancelled' = DeferredCancel(Top(r), cancelled)
    /\ stack' = [stack EXCEPT ![r] = Popped(r)]
    /\ IF Recovers(Top(r))
       THEN /\ panicking' = [panicking EXCEPT ![r] = FALSE]
            /\ resp' = [resp EXCEPT ![r] = Recovered(@)]
            /\ stat' = [stat EXCEPT ![r] = StatAfter(r, Popped(r), FALSE)]
            /\ trace' = Logged(r, Event("recovered", Top(r), Top(r).ctx))
       ELSE /\ UNCHANGED <<panicking, resp>>
            /\ stat' = [stat EXCEPT ![r] = StatAfter(r, Popped(r), TRUE)]
            /\ trace' = IF Top(r).fn = "Camillo"
                        THEN Logged(r, Event("exit", Top(r), Top(r).ctx)) ELSE trace
    /\ UNCHANGED <<camillo, ctxTab, machineVars>>

(***************************************************************************)
(* Logger                                                                  *)
(***************************************************************************)
LoggerBefore_SkipsNext(r) ==
    /\ At(r, "middleware", "call")
    /\ Kind(r, "logger")
    /\ trace' = Logged(r, Noted("before", Top(r), Top(r).ctx, <<Method(r), Path(r)>>))
    /\ stack' = Replaced(r, [Top(r) EXCEPT !.pc = "after"])
    /\ UNCHANGED <<camillo, sharedContextStore, ctxTab, cancelled, stat, panicking,
                   resp, machineVars>>

\* l.Printf("Started %s %s", r.Method, r.URL.Path); next(ctx, rw, r)
LoggerBefore(r) ==
    /\ At(r, "middleware", "call")
    /\ Kind(r, "logger")
    /\ trace' = Logged(r, Noted("before", Top(r), Top(r).ctx, <<Method(r), Path(r)>>))
    /\ stack' = Called(r, [Top(r) EXCEPT !.pc = "after", !.nctx = Top(r).ctx],
                       MiddlewareFrame(Top(r).m.next[1], Top(r).ctx))
    /\ UNCHANGED <<camillo, sharedContextStore, ctxTab, cancelled, stat, panicking,
                   resp, machineVars>>

\* res.Status(): the status the response wrapper recorded.
Status(w) == w.status

\* res := rw.(ResponseWriter); l.Printf("Completed %v ...", res.Status(), ...)
LoggerAfter(r) ==
    /\ At(r, "middleware", "after")
    /\ Top(r).m.handler.kind = "logger"
    /\ trace' = Logged(r, Noted("after", Top(r), Top(r).ctx, <<Status(resp[r])>>))
    /\ stack' = [stack EXCEPT ![r] = Popped(r)]
    /\ stat' = [stat EXCEPT ![r] = StatAfter(r, Popped(r), FALSE)]
    /\ UNCHANGED <<camillo, sharedContextStore, ctxTab, cancelled, panicking,
                   resp, machineVars>>

(***************************************************************************)
(* Wrap                                                                    *)
(***************************************************************************)
\* sharedContextStore.Add(r, ctx); handler.ServeHTTP(rw, r)
WrapAdd(r) ==
    /\ At(r, "middleware", "call")
    /\ Kind(r, "wrap")
    /\ sharedContextStore' = Add(sharedContextStore, r, Top(r).ctx)
    /\ trace' = Logged(r, Event("before", Top(r), Top(r).ctx))
    /\ stack' = Called(r, [Top(r) EXCEPT !.pc = "plain"], PlainFrame(Top(r).h))
    /\ UNCHANGED <<camillo, ctxTab, cancelled, stat, panicking, resp, machineVars>>

WrapCtx_Received(f, s, r) == f.ctx

\* ctx = sharedContextStore.Get(r): the context Wrap passes to next.
WrapCtx(f, s, r) == Get(s, r)

\* ctx = sharedContextStore.Get(r); next(ctx, rw, r)
WrapNext(r) ==
    /\ At(r, "middleware", "plain")
    /\ LET nctx == WrapCtx(Top(r), sharedContextStore, r)
       IN  /\ trace' = Logged(r, Event("next", Top(r), nctx))
           /\ stack' = Called(r, [Top(r) EXCEPT !.pc = "after", !.nctx = nctx],
                              MiddlewareFrame(Top(r).m.next[1], nctx))
    /\ UNCHANGED <<camillo, sharedContextStore, ctxTab, cancelled, stat, panicking,
                   resp, machineVars>>

\* A plain http.Handler that writes 200 and "hi".
PlainEcho(r) ==
    /\ At(r, "plain", "call")
    /\ Top(r).h = "echo"
    /\ resp' = [resp EXCEPT ![r] = Write(WriteHeader(@, 200), "hi")]
    /\ stack' = [stack EXCEPT ![r] = Popped(r)]
    /\ UNCHANGED <<camillo, sharedContextStore, ctxTab, cancelled, stat, panicking,
                   trace, machineVars>>

\* A plain http.Handler that is a Camillo instance: sub.ServeHTTP(rw, r).
PlainSub(r) ==
    /\ At(r, "plain", "call")
    /\ Top(r).h \in SubInsts
    /\ stack' = Called(r, [Top(r) EXCEPT !.pc = "ret"], CamilloFrame(Top(r).h))
    /\ UNCHANGED <<camillo, sharedContextStore, ctxTab, cancelled, stat, panicking,
                   trace, resp, machineVars>>

PlainReturn(r) ==
    /\ At(r, "plain", "ret")
    /\ stack' = [stack EXCEPT ![r] = Popped(r)]
    /\ UNCHANGED <<camillo, sharedContextStore, ctxTab, cancelled, stat, panicking,
                   trace, resp, machineVars>>

(***************************************************************************)
(* The dispatch machine                                                    *)
(***************************************************************************)
\* A store call as the store machine records it: the call and its argument,
\* what it returned, whether it panicked, how many contexts the request had
\* pushed before the call and which was on top, and the requests stored so far.
Call(op, req, ctx, ret, panicked, depth, top, seen) ==
    [op |-> op, req |-> req, ctx |-> ctx, ret |-> ret, panicked |-> panicked,
     depth |-> depth, top |-> top, seen |-> seen]

NoCall == Call("", "", NilCtx, NilCtx, FALSE, 0, NilCtx, {})

\* The two variants of contextStore, each with its own mtx sync.RWMutex.
Variants == {"slot", "stack"}
Unlocked == [writer |-> "", readers |-> {}]

\* Goroutines that call the store, and the call a goroutine is in.
Procs == {"g1", "g2", "g3"}
Idle == [op |-> "", req |-> "", ctx |-> NilCtx, pc |-> "idle", ret |-> NilCtx,
         before |-> EmptyStore]

\* The program has made instance n and the contexts of tab, and serves with
\* w goroutines.
InitOf(n, tab, w) ==
    /\ camillo = [i \in {"n"} \cup SubInsts |->
                    IF i = "n" THEN n ELSE IF i = "subA" THEN SubA ELSE SubB]
    /\ sharedContextStore = EmptyStore
    /\ stackStore = EmptyStore
    /\ ctxTab = tab
    /\ cancelled = {}
    /\ stat = [r \in Reqs |-> "ready"]
    /\ stack = [r \in Reqs |-> << >>]
    /\ panicking = [r \in Reqs |-> FALSE]
    /\ trace = [r \in Reqs |-> << >>]
    /\ resp = [r \in Reqs |-> NoResponse]
    /\ workers = w
    /\ last = NoCall
    /\ mtx = [v \in Variants |-> Unlocked]
    /\ ops = [g \in Procs |-> Idle]

\* context.Background() is the only context.
RootOnly == <<[parent |-> NilCtx, by |-> ""]>>

\* n := camillo.New(handlers...)
InitWith(handlers, w) == InitOf(New(handlers), RootOnly, w)

\* n := camillo.New(), served by a host that runs one request at a time.
Init == InitWith(<< >>, 1)

Step(r) ==
    \/ Serve(r)
    \/ CamilloGet(r)
    \/ CamilloNew(r)
    \/ CamilloRun(r)
    \/ CamilloReturn(r)
    \/ PassBefore(r)
    \/ HandlerReturn(r)
    \/ Stop(r)
    \/ VoidServe(r)
    \/ Panic(r)
    \/ Unwind(r)
    \/ RecoveryServe(r)
    \/ LoggerBefore(r)
    \/ LoggerAfter(r)
    \/ WrapAdd(r)
    \/ WrapNext(r)
    \/ PlainEcho(r)
    \/ PlainSub(r)
    \/ PlainReturn(r)

Next ==
    \/ \E k \in FuncKinds : UseFunc(k)
    \/ \E h \in PlainHandlers : UseHandler(h)
    \/ \E k \in BuiltinKinds : UseBuiltin(k)
    \/ \E r \in Reqs : Step(r)

Spec == Init /\ [][Next]_vars

(***************************************************************************)
(* Concurrent dispatch: two requests served at once through one chain      *)
(***************************************************************************)
ConcChains ==
    { <<Handler("derive", "n", 1, ""), Wrap("n", 2, "echo")>>,
      <<Wrap("n", 1, "subA")>>,
      <<Handler("pass", "n", 1, ""), Wrap("n", 2, "subB")>>,
      <<Wrap("n", 1, "echo"), Handler("stop", "n", 2, "")>>,
      <<Wrap("n", 1, "echo"), Handler("panic", "n", 2, "")>>,
      <<Handler("derive", "n", 1, ""), Wrap("n", 2, "subA"), Wrap("n", 3, "echo")>>,
      <<Handler("logger", "n", 1, ""), Handler("recovery", "n", 2, ""),
        Wrap("n", 3, "subB")>> }

InitConc == \E hs \in ConcChains : InitWith(hs, 2)

NextConc == \E r \in Reqs : Step(r)

SpecConc == InitConc /\ [][NextConc]_vars

(***************************************************************************)
(* Use after construction: between dispatches and from a running handler   *)
(***************************************************************************)
\* The handlers given to New(handlers...).
CtorChains == ConcChains \cup {<< >>}

\* What Use, UseFunc and UseHandler append once the instance serves.
LaterHandlers(id) ==
    {Handler("pass", "n", id, ""), Handler("recovery", "n", id, ""), Wrap("n", id, "echo")}

\* n.Use(handler) called by the goroutine that serves, from the code of a
\* running handler or between two dispatches.
UseLater(h) ==
    /\ Len(camillo["n"].handlers) < MaxHandlers
    /\ \A r \in Reqs : stat[r] = "running" => At(r, "middleware", "call")
    /\ camillo' = [camillo EXCEPT !["n"] = Use(@, h)]
    /\ UNCHANGED <<sharedContextStore, ctxTab, cancelled, stat, stack, panicking,
                   trace, resp, machineVars>>

InitUse == \E hs \in CtorChains : InitWith(hs, 1)

NextUse ==
    \/ \E h \in LaterHandlers(Len(camillo["n"].handlers) + 1) : UseLater(h)
    \/ \E r \in Reqs : Step(r)

SpecUse == InitUse /\ [][NextUse]_vars

(***************************************************************************)
(* A Wrap-adapted handler invoked without a dispatcher                     *)
(***************************************************************************)
\* camillo.Wrap(h) with a next that does nothing.
DirectNode(h) == [handler |-> Wrap("direct", 1, h), next |-> <<voidMiddleware>>]

\* camillo.Wrap(h).ServeHTTP(ctx, rw, r, next), called by the program itself
\* and not through Camillo.ServeHTTP.
InvokeWrap(r, h) ==
    /\ stat[r] = "ready"
    /\ Cardinality({q \in Reqs : stat[q] = "running"}) < workers
    /\ stat' = [stat EXCEPT ![r] = "running"]
    /\ stack' = [stack EXCEPT ![r] = <<MiddlewareFrame(DirectNode(h), Background)>>]
    /\ UNCHANGED <<camillo, sharedContextStore, ctxTab, cancelled, panicking,
                   trace, resp, machineVars>>

NextDirect ==
    \/ \E r \in Reqs : \E h \in {"echo", "subA"} : InvokeWrap(r, h)
    \/ \E r \in Reqs : Step(r)

SpecDirect == InitUse /\ [][NextDirect]_vars

(***************************************************************************)
(* NewWithContext: the base context of an instance                         *)
(***************************************************************************)
\* base, cancelBase := context.WithCancel(context.Background()), made by the
\* program before it constructs the instance.
UserBase == 2
WithUserBase == NewCtx(RootOnly, Background, "")

\* What NewWithContext is given: nil, the root, or the program's context.
Bases == {NilCtx, Background, UserBase}

\* The program calls cancelBase().
CancelBase ==
    /\ camillo["n"].ctx = UserBase /\ UserBase \notin cancelled
    /\ cancelled' = cancelled \cup {UserBase}
    /\ UNCHANGED <<camillo, sharedContextStore, ctxTab, stat, stack, panicking,
                   trace, resp, machineVars>>

InitBase ==
    \E base \in Bases, hs \in ConcChains :
        InitOf(NewWithContext(base, hs), WithUserBase, 1)

NextBase ==
    \/ CancelBase
    \/ \E r \in Reqs : Step(r)

SpecBase == InitBase /\ [][NextBase]_vars

(***************************************************************************)
(* The store machine: calls on the two contextStore variants               *)
(***************************************************************************)
servingVars == <<camillo, ctxTab, cancelled, stat, stack, panicking, trace, resp,
                 workers>>
dispatchVars == <<servingVars, mtx, ops>>

StackOf(s, req) == IF s.made /\ req \in DOMAIN s.contexts THEN s.contexts[req] ELSE << >>
TopOf(stk) == IF Len(stk) = 0 THEN NilCtx ELSE stk[Len(stk)]

StoreGet(req) ==
    /\ last' = Call("Get", req, NilCtx, Get(sharedContextStore, req), FALSE, 0, NilCtx,
                    last.seen)
    /\ UNCHANGED <<sharedContextStore, stackStore, dispatchVars>>

StoreAdd(req, ctx) ==
    /\ sharedContextStore' = Add(sharedContextStore, req, ctx)
    /\ last' = Call("Add", req, ctx, NilCtx, FALSE, 0, NilCtx,
                    last.seen \cup {<<"slot", req>>})
    /\ UNCHANGED <<stackStore, dispatchVars>>

StoreRemove(req) ==
    /\ sharedContextStore' = Remove(sharedContextStore, req)
    /\ last' = Call("Remove", req, NilCtx, NilCtx, FALSE, 0,
                    Get(sharedContextStore, req), last.seen)
    /\ UNCHANGED <<stackStore, dispatchVars>>

StackStoreGet(req) ==
    /\ last' = Call("StackGet", req, NilCtx, StackGet(stackStore, req), FALSE,
                    Len(StackOf(stackStore, req)), TopOf(StackOf(stackStore, req)),
                    last.seen)
    /\ UNCHANGED <<sharedContextStore, stackStore, dispatchVars>>

StackStorePush(req, ctx) ==
    /\ Len(StackOf(stackStore, req)) < MaxStack
    /\ stackStore' = Push(stackStore, req, ctx)
    /\ last' = Call("Push", req, ctx, NilCtx, FALSE,
                    Len(StackOf(stackStore, req)), TopOf(StackOf(stackStore, req)),
                    last.seen \cup {<<"stack", req>>})
    /\ UNCHANGED <<sharedContextStore, dispatchVars>>

StackStorePop(req, ctx) ==
    /\ stackStore' = Pop(stackStore, req, ctx).store
    /\ last' = Call("Pop", req, ctx, NilCtx, Pop(stackStore, req, ctx).panicked,
                    Len(StackOf(stackStore, req)), TopOf(StackOf(stackStore, req)),
                    last.seen)
    /\ UNCHANGED <<sharedContextStore, dispatchVars>>

NextStore ==
    \/ \E req \in Reqs : StoreGet(req)
    \/ \E req \in Reqs, ctx \in StoreCtxs : StoreAdd(req, ctx)
    \/ \E req \in Reqs : StoreRemove(req)
    \/ \E req \in Reqs : StackStoreGet(req)
    \/ \E req \in Reqs, ctx \in StoreCtxs : StackStorePush(req, ctx)
    \/ \E req \in Reqs, ctx \in StoreCtxs : StackStorePop(req, ctx)

SpecStore == Init /\ [][NextStore]_vars

(***************************************************************************)
(* The stores under their lock: concurrent calls, statement by statement   *)
(***************************************************************************)
SlotOps == {"Get", "Add", "Remove"}
StackOps == {"StackGet", "Push", "Pop"}

Variant(op) == IF op \in SlotOps THEN "slot" ELSE "stack"

LockKind_AllRead(op) == "R"

\* Get takes s.mtx.RLock(), every other method s.mtx.Lock().
LockKind(op) == IF op \in {"Get", "StackGet"} THEN "R" ELSE "W"

\* The contexts a call of op is given.
CtxsOf(op) == IF op \in {"Add", "Push", "Pop"} THEN StoreCtxs ELSE {NilCtx}

\* Between its Lock/RLock and its deferred Unlock/RUnlock.
InCS(g) == ops[g].pc \in {"in", "set", "out", "panic"}

\* Contexts on req's stack plus those of Push calls under way.
Pending(req) ==
    Len(StackOf(stackStore, req))
    + Cardinality({g \in Procs : ops[g].op = "Push" /\ ops[g].req = req})

\* A goroutine calls a method of the store.
Enter(g, op, req, ctx) ==
    /\ ops[g].pc = "idle"
    /\ op = "Push" => Pending(req) < MaxStack
    /\ ops' = [ops EXCEPT ![g] = [Idle EXCEPT !.op = op, !.req = req, !.ctx = ctx,
                                              !.pc = "lock"]]
    /\ UNCHANGED <<sharedContextStore, stackStore, mtx, servingVars, last>>

\* s.mtx.RLock() / s.mtx.Lock()
Acquire(g) ==
    /\ ops[g].pc = "lock"
    /\ LET v == Variant(ops[g].op)
       IN  /\ mtx[v].writer = ""
           /\ IF LockKind(ops[g].op) = "R"
              THEN mtx' = [mtx EXCEPT ![v].readers = @ \cup {g}]
              ELSE /\ mtx[v].readers = {}
                   /\ mtx' = [mtx EXCEPT ![v].writer = g]
    /\ ops' = [ops EXCEPT ![g].pc = "in"]
    /\ UNCHANGED <<sharedContextStore, stackStore, servingVars, last>>

\* if s.contexts == nil { s.contexts = make(...) }
Made(s) == IF s.made THEN s ELSE [made |-> TRUE, contexts |-> << >>]

\* The body of the single-slot Get and Remove, and of Add up to the lazy
\* creation of the map.
SlotBody(g) ==
    /\ ops[g].pc = "in" /\ ops[g].op \in SlotOps
    /\ LET o == ops[g]
       IN  CASE o.op = "Get" ->
                  /\ ops' = [ops EXCEPT ![g].pc = "out",
                                        ![g].ret = Get(sharedContextStore, o.req)]
                  /\ UNCHANGED sharedContextStore
             [] o.op = "Add" ->
                  /\ sharedContextStore' = Made(sharedContextStore)
                  /\ ops' = [ops EXCEPT ![g].pc = "set"]
             [] o.op = "Remove" ->
                  /\ sharedContextStore' = Remove(sharedContextStore, o.req)
                  /\ ops' = [ops EXCEPT ![g].pc = "out"]
    /\ UNCHANGED <<stackStore, mtx, servingVars, last>>

\* s.contexts[req] = ctx
AddSet(g) ==
    /\ ops[g].pc = "set"
    /\ sharedContextStore' = Add(sharedContextStore, ops[g].req, ops[g].ctx)
    /\ ops' = [ops EXCEPT ![g].pc = "out"]
    /\ UNCHANGED <<stackStore, mtx, servingVars, last>>

\* The body of the stack store's Get, Push and Pop; Pop may panic.
StackBody(g) ==
    /\ ops[g].pc = "in" /\ ops[g].op \in StackOps
    /\ LET o == ops[g]
       IN  CASE o.op = "StackGet" ->
                  /\ ops' = [ops EXCEPT ![g].pc = "out",
                                        ![g].ret = StackGet(stackStore, o.req)]
                  /\ UNCHANGED stackStore
             [] o.op = "Push" ->
                  /\ stackStore' = Push(stackStore, o.req, o.ctx)
                  /\ ops' = [ops EXCEPT ![g].pc = "out"]
             [] o.op = "Pop" ->
                  LET p == Pop(stackStore, o.req, o.ctx)
                  IN  /\ stackStore' = p.store
                      /\ ops' = [ops EXCEPT ![g].pc = IF p.panicked THEN "panic" ELSE "out",
                                            ![g].before = stackStore]
    /\ UNCHANGED <<sharedContextStore, mtx, servingVars, last>>

DeferredUnlock_NotOnPanic(m, o, g) ==
    IF o.pc = "panic" THEN m
    ELSE IF LockKind(o.op) = "R" THEN [m EXCEPT !.readers = @ \ {g}]
    ELSE [m EXCEPT !.writer = ""]

\* defer s.mtx.RUnlock() / defer s.mtx.Unlock(): runs on return and on panic.
DeferredUnlock(m, o, g) ==
    IF LockKind(o.op) = "R" THEN [m EXCEPT !.readers = @ \ {g}]
    ELSE [m EXCEPT !.writer = ""]

\* The method returns, or its panic leaves it: the deferred unlock runs.  A
\* goroutine whose Pop panicked makes no further call.
Release(g) ==
    /\ ops[g].pc \in {"out", "panic"}
    /\ mtx' = [mtx EXCEPT ![Variant(ops[g].op)] = DeferredUnlock(@, ops[g], g)]
    /\ ops' = [ops EXCEPT ![g] = IF ops[g].pc = "panic"
                                  THEN [Idle EXCEPT !.pc = "crashed"] ELSE Idle]
    /\ UNCHANGED <<sharedContextStore, stackStore, servingVars, last>>

NextLock ==
    \/ \E g \in Procs, op \in SlotOps, req \in Reqs :
          \E ctx \in CtxsOf(op) : Enter(g, op, req, ctx)
    \/ \E g \in Procs : Acquire(g)
    \/ \E g \in Procs : SlotBody(g)
    \/ \E g \in Procs : AddSet(g)
    \/ \E g \in Procs : Release(g)

SpecLock == Init /\ [][NextLock]_vars

NextStackLock ==
    \/ \E g \in Procs, op \in StackOps, req \in Reqs :
          \E ctx \in CtxsOf(op) : Enter(g, op, req, ctx)
    \/ \E g \in Procs : Acquire(g)
    \/ \E g \in Procs : StackBody(g)
    \/ \E g \in Procs : Release(g)

SpecStackLock == Init /\ [][NextStackLock]_vars

(***************************************************************************)
(* Reading the runs                                                        *)
(***************************************************************************)
N == Len(camillo["n"].handlers)
HandlerAt(i) == camillo["n"].handlers[i]

\* The before/after phases the outer chain's handlers ran, in order.
IsPhase(e) == e.inst = "n" /\ e.ev \in {"before", "after"}
Phases(r) ==
    LET es == SelectSeq(trace[r], IsPhase)
    IN  [k \in 1..Len(es) |-> <<es[k].ev, es[k].id>>]

Onion(n) == [k \in 1..(2 * n) |-> IF k <= n THEN <<"before", k>>
                                  ELSE <<"after", 2 * n + 1 - k>>]

IsPrefix(s, t) == Len(s) <= Len(t) /\ s = SubSeq(t, 1, Len(s))

\* Handlers that call next exactly once: the passing handler functions and
\* the adapters of plain handlers that return.
CallsNextOnce(h) ==
    \/ h.kind \in {"pass", "derive", "recovery", "logger"}
    \/ h.kind = "wrap" /\ h.h \in {"echo", "subA"}

Count(r, ev, inst, id) ==
    Cardinality({k \in 1..Len(trace[r]) :
                    trace[r][k].ev = ev /\ trace[r][k].inst = inst /\ trace[r][k].id = id})

Ran(r, ev, id) == \E k \in 1..Len(trace[r]) :
                    trace[r][k].inst = "n" /\ trace[r][k].ev = ev /\ trace[r][k].id = id

Frames(r) == {stack[r][k] : k \in 1..Depth(r)}
HasEntry(r) == sharedContextStore.made /\ r \in DOMAIN sharedContextStore.contexts

(***************************************************************************)
(* C1..C5, C10: one request through the chain                              *)
(***************************************************************************)
\* C1: when every handler of the list h1..hN (N >= 1) calls next exactly
\* once, a dispatch runs the before code of h1..hN in list order and then the
\* after code of hN..h1 in reverse order, each exactly once.
C1_OnionOrder ==
    \A r \in Reqs :
        (N >= 1 /\ \A i \in 1..N : CallsNextOnce(HandlerAt(i)))
        => /\ IsPrefix(Phases(r), Onion(N))
           /\ stat[r] = "done" => Phases(r) = Onion(N)

C1_Witness ==
    /\ N = 3 /\ \A i \in 1..N : CallsNextOnce(HandlerAt(i))
    /\ stat["r1"] = "done" /\ Phases("r1") = Onion(3)

\* C2: once the handler at position i has run and returned without calling
\* next, no handler at a position j > i runs in that dispatch, and the
\* handlers before i still run their after code.
C2_StopEndsChain ==
    \A r \in Reqs : \A i \in 1..N :
        (HandlerAt(i).kind = "stop" /\ Ran(r, "before", i))
        => /\ \A k \in 1..Len(trace[r]) :
                 trace[r][k].inst = "n" => trace[r][k].id <= i
           /\ stat[r] = "done" =>
                 /\ ~Ran(r, "after", i)
                 /\ \A j \in 1..(i - 1) : Count(r, "after", "n", j) = 1

C2_Witness ==
    /\ N = 3 /\ HandlerAt(2).kind = "stop" /\ Ran("r1", "before", 2)
    /\ stat["r1"] = "done" /\ Ran("r1", "after", 1)

\* C3: a dispatch through an instance with zero handlers completes without
\* a fault and writes neither a status nor a body.
C3_EmptyChain ==
    \A r \in Reqs :
        (N = 0 /\ stat[r] # "ready")
        => /\ ~panicking[r] /\ stat[r] # "crashed"
           /\ resp[r] = NoResponse
           /\ stat[r] = "running" => Depth(r) > 0

C3_Witness == N = 0 /\ stat["r1"] = "done" /\ resp["r1"] = NoResponse

\* The fresh dispatch that created context c is still on the call stack.
Owning(r, c) == \E f \in Frames(r) : f.fn = "Camillo" /\ f.own /\ f.ctx = c

\* C4: once a fresh dispatch has exited, by return, after an early return of
\* a handler or by a panic passing through it, the context it created is
\* cancelled and the store holds no entry for its request.
C4_FreshExitCleansUp ==
    \A r \in Reqs : \A k \in 1..Len(trace[r]) :
        (trace[r][k].ev = "fresh" /\ ~Owning(r, trace[r][k].ctx))
        => /\ trace[r][k].ctx \in cancelled
           /\ ~HasEntry(r)
           /\ Get(sharedContextStore, r) = NilCtx

C4_Witness ==
    /\ stat["r1"] = "crashed"
    /\ \E k \in 1..Len(trace["r1"]) :
          trace["r1"][k].ev = "fresh" /\ trace["r1"][k].ctx \in cancelled
    /\ ~HasEntry("r1")

\* C5: a re-entrant dispatch runs its chain with the stored context and
\* starts no lifecycle: it creates no context, and while the outermost
\* dispatch is on the stack (so also when the re-entrant one has returned)
\* the per-request context is not cancelled and the store holds the entry.
C5_ReentrantOwnsNothing ==
    \A r \in Reqs :
        /\ Count(r, "fresh", "n", 0) <= 1
        /\ \A i \in SubInsts : Count(r, "fresh", i, 0) = 0
        /\ \A f \in Frames(r) :
              /\ (f.fn = "Camillo" /\ f.own)
                  => HasEntry(r) /\ ~Done(ctxTab, cancelled, f.ctx)
              /\ (f.fn = "Camillo" /\ ~f.own /\ f.pc \in {"run", "ret"})
                  => f.ctx # NilCtx /\ ~Done(ctxTab, cancelled, f.ctx)
        /\ (At(r, "Camillo", "run") /\ ~Top(r).own)
              => Top(r).ctx = Get(sharedContextStore, r)

\* The re-entrant dispatch of a mounted instance has just returned.
C5_Witness ==
    /\ At("r1", "plain", "ret")
    /\ Count("r1", "exit", "subA", 0) = 1
    /\ HasEntry("r1")

IsWrap(f) == f.fn = "middleware" /\ ~Faults(f.m) /\ f.m.handler.kind = "wrap"

\* No handler panicked while r was served: every plain handler returned.
NoPanic(r) == \A k \in 1..Len(trace[r]) : trace[r][k].ev # "panic"

\* C10: a Wrap-produced handler makes the context it received the store's
\* current context for r before the plain handler starts, calls next only
\* after the plain handler has returned, exactly once, and passes the
\* context the store holds for r at that moment.
C10_WrapProtocol ==
    \A r \in Reqs :
        /\ \A k \in 1..Depth(r) :
             LET f == stack[r][k] IN
             IsWrap(f) =>
               /\ (f.pc = "plain" /\ k < Depth(r)) =>
                     /\ stack[r][k + 1].fn = "plain"
                     /\ stack[r][k + 1].ctx = NilCtx
                     /\ stack[r][k + 1].pc = "call" =>
                           Get(sharedContextStore, r) = f.ctx
               /\ (f.pc = "after" /\ k < Depth(r)) =>
                     /\ stack[r][k + 1].fn = "middleware"
                     /\ stack[r][k + 1].m = f.m.next[1]
                     /\ stack[r][k + 1].ctx = f.nctx
                     /\ (k + 1 = Depth(r) /\ stack[r][k + 1].pc = "call") =>
                           f.nctx = Get(sharedContextStore, r)
               /\ Count(r, "next", f.inst, f.m.handler.id)
                     = Count(r, "before", f.inst, f.m.handler.id)
                         - (IF f.pc = "plain" THEN 1 ELSE 0)
        /\ (stat[r] = "done" /\ NoPanic(r)) =>
             \A i \in 1..N : HandlerAt(i).kind = "wrap" =>
                 Count(r, "next", "n", i) = Count(r, "before", "n", i)

\* The adapter of a mounted instance has just called next with the context
\* it read back from the store.
C10_Witness ==
    /\ Depth("r1") >= 2 /\ ~panicking["r1"]
    /\ IsWrap(stack["r1"][Depth("r1") - 1])
    /\ stack["r1"][Depth("r1") - 1].pc = "after"
    /\ stack["r1"][Depth("r1") - 1].h = "subA"
    /\ Top("r1").pc = "call"
    /\ Top("r1").ctx = Get(sharedContextStore, "r1")

\* C7: when the adapter of a mounted instance calls next after the inner
\* chain has stored a further-derived context through its own adapter, the
\* context it passes on (the one the store yields) is the context the outer
\* chain had handed to the adapter.
C7_OuterContextRestored ==
    \A r \in Reqs : \A f \in Frames(r) :
        (IsWrap(f) /\ f.h \in SubInsts /\ f.pc = "after") => f.nctx = f.ctx

(***************************************************************************)
(* C6: two requests at once                                                *)
(***************************************************************************)
Entry(r) == IF HasEntry(r) THEN <<TRUE, sharedContextStore.contexts[r]>>
            ELSE <<FALSE, NilCtx>>

\* Context c was created by, and so only ever stored for, request r.
StoredFor(c, r) == c # NilCtx /\ c <= Len(ctxTab) /\ ctxTab[c].by = r

\* What Get returned to the goroutine of r: to Camillo.ServeHTTP when it
\* resumed, and to Wrap before it called next.
IsGot(e) == e.ev \in {"resume", "next"}

C6_OwnContexts ==
    \A r \in Reqs :
        /\ HasEntry(r) => StoredFor(sharedContextStore.contexts[r], r)
        /\ \A k \in 1..Len(trace[r]) :
              IsGot(trace[r][k]) => StoredFor(trace[r][k].ctx, r)
        /\ \A f \in Frames(r) : f.ctx # NilCtx => StoredFor(f.ctx, r)

C6_OthersUntouched ==
    \A r \in Reqs :
        (stack'[r] = stack[r] /\ stat'[r] = stat[r]) => Entry(r)' = Entry(r)

\* C6: under every interleaving of the dispatches of two distinct requests,
\* each Get(r) returns a context stored for r, never one of the other
\* request, and a step of one request's goroutine leaves the other
\* request's entry as it was.
C6_Isolation == []C6_OwnContexts /\ [][C6_OthersUntouched]_vars

C6_Witness ==
    /\ HasEntry("r1") /\ HasEntry("r2")
    /\ Entry("r1") # Entry("r2")
    /\ \E k \in 1..Len(trace["r1"]) : IsGot(trace["r1"][k])
    /\ \E k \in 1..Len(trace["r2"]) : IsGot(trace["r2"][k])

(***************************************************************************)
(* C8, C9: the store, call by call                                         *)
(***************************************************************************)
\* C8: in both variants Get on a request never stored returns no context;
\* right after Add(r, c) or Push(r, c), Get(r) is c; right after Remove(r),
\* or after the Pop(r, c) that matches the only context pushed for r, Get(r)
\* is no context again.
C8_RoundTrip ==
    /\ (last.op = "Get" /\ <<"slot", last.req>> \notin last.seen) => last.ret = NilCtx
    /\ (last.op = "StackGet" /\ <<"stack", last.req>> \notin last.seen)
          => last.ret = NilCtx
    /\ last.op = "Add" => Get(sharedContextStore, last.req) = last.ctx
    /\ last.op = "Push" => StackGet(stackStore, last.req) = last.ctx
    /\ last.op = "Remove" => Get(sharedContextStore, last.req) = NilCtx
    /\ (last.op = "Pop" /\ last.depth = 1 /\ last.top = last.ctx)
          => StackGet(stackStore, last.req) = NilCtx

\* A context that had been added was removed; one that had been pushed was popped.
C8_Witness ==
    \/ last.op = "Remove" /\ last.top # NilCtx
    \/ last.op = "Pop" /\ last.depth = 1 /\ last.top = last.ctx

\* C9: every unbalanced Pop(r, c), c not being the context on top of r's
\* stack or r having no pushed context, also in a store nothing was ever
\* pushed into, panics.
C9_UnbalancedPopPanics ==
    (last.op = "Pop" /\ (last.depth = 0 \/ last.top # last.ctx)) => last.panicked

(***************************************************************************)
(* C11, C14, C15: Recovery and Logger                                      *)
(***************************************************************************)
\* Handlers that panic when served: the panicking handler function and the
\* adapter of the instance whose chain panics.
Faulting(h) == h.kind = "panic" \/ (h.kind = "wrap" /\ h.h = "subB")

\* C11: with the chain [Recovery, h], h a handler that panics, a dispatch
\* never lets the panic out of Camillo.ServeHTTP: once Recovery has absorbed
\* it the goroutine panics no more, and the dispatch returns normally with
\* response status 500.
C11_RecoveryAbsorbs ==
    (N = 2 /\ HandlerAt(1).kind = "recovery" /\ Faulting(HandlerAt(2)))
    => \A r \in Reqs :
          /\ stat[r] # "crashed"
          /\ Ran(r, "recovered", 1) => ~panicking[r] /\ Status(resp[r]) = 500
          /\ stat[r] = "done" => Ran(r, "recovered", 1) /\ Status(resp[r]) = 500

C11_Witness ==
    /\ N = 2 /\ HandlerAt(1).kind = "recovery" /\ HandlerAt(2).kind = "panic"
    /\ stat["r1"] = "done" /\ Ran("r1", "panic", 2) /\ Status(resp["r1"]) = 500

\* The events of the outer chain a Logger recorded.
LoggerEvent(e, ev) == e.inst = "n" /\ e.ev = ev /\ HandlerAt(e.id).kind = "logger"

\* C14: a Logger records the request's method and path before anything
\* downstream of it runs, and after next has returned it records the status
\* the response carries from then on.  With the chain [Logger, Recovery,
\* echo] the Logger of a GET request records GET and 200, Recovery absorbs
\* no panic and the body is "hi".
C14_LoggerRecords ==
    \A r \in Reqs :
        /\ \A k \in 1..Len(trace[r]) :
              /\ LoggerEvent(trace[r][k], "before")
                 => /\ trace[r][k].val = <<Method(r), Path(r)>>
                    /\ \A j \in 1..(k - 1) :
                          trace[r][j].inst = "n" /\ trace[r][j].ev \notin {"fresh", "resume"}
                          => trace[r][j].id < trace[r][k].id
              /\ LoggerEvent(trace[r][k], "after")
                 => /\ trace[r][k].val = <<Status(resp[r])>>
                    /\ \E j \in 1..(k - 1) :
                          LoggerEvent(trace[r][j], "before") /\ trace[r][j].id = trace[r][k].id
        /\ (/\ N = 3 /\ HandlerAt(1).kind = "logger" /\ HandlerAt(2).kind = "recovery"
            /\ HandlerAt(3) = Wrap("n", 3, "echo"))
           => /\ ~panicking[r] /\ stat[r] # "crashed"
              /\ ~Ran(r, "recovered", 2) /\ ~Ran(r, "panic", 3)
              /\ stat[r] = "done"
                 => /\ \E k \in 1..Len(trace[r]) :
                          /\ LoggerEvent(trace[r][k], "before")
                          /\ trace[r][k].val[1] = Method(r)
                    /\ \E k \in 1..Len(trace[r]) :
                          /\ LoggerEvent(trace[r][k], "after")
                          /\ trace[r][k].val = <<200>>
                    /\ resp[r].body = <<"hi">>

C14_Witness ==
    /\ N = 3 /\ HandlerAt(1).kind = "logger" /\ HandlerAt(2).kind = "recovery"
    /\ HandlerAt(3) = Wrap("n", 3, "echo")
    /\ stat["r1"] = "done" /\ Method("r1") = "GET"
    /\ trace["r1"][Len(trace["r1"]) - 1].val = <<200>>
    /\ resp["r1"].body = <<"hi">>

\* The handler of the outer chain that was running at event k of r's trace,
\* k a panic: the deepest handler the dispatch has reached.
RunningAt(r, k) ==
    LET ids == {trace[r][j].id : j \in {i \in 1..k : trace[r][i].inst = "n"}}
    IN  CHOOSE i \in ids : \A j \in ids : j <= i

\* C15: a dispatch in which a handler of the chain panicked (itself, or the
\* chain of the instance it adapts) returns normally exactly when a Recovery
\* of the chain had called next before the panic, so sits upstream of the
\* panicking handler; without one the panic leaves Camillo.ServeHTTP and
\* reaches the host server.
C15_AbsorbedIffUpstream ==
    \A r \in Reqs : \A k \in 1..Len(trace[r]) :
        trace[r][k].ev = "panic"
        => LET upstream == \E i \in 1..(RunningAt(r, k) - 1) :
                               i <= N /\ HandlerAt(i).kind = "recovery"
           IN  /\ stat[r] = "done" => upstream
               /\ stat[r] = "crashed" => ~upstream
               /\ Ran(r, "exit", 0) => (panicking[r] <=> ~upstream)

\* Both outcomes: a panic downstream of a Recovery ended in a normal return,
\* and a panic with a Recovery only downstream of it reached the host.
C15_Witness ==
    \/ /\ stat["r1"] = "done" /\ Ran("r1", "panic", 3) /\ HandlerAt(2).kind = "recovery"
    \/ /\ stat["r1"] = "crashed" /\ Ran("r1", "panic", 1) /\ N = 2
       /\ HandlerAt(2).kind = "recovery"

(***************************************************************************)
(* C16: the context along the chain                                        *)
(***************************************************************************)
\* C16: every handler running holds the context its caller passed: the head
\* of a chain the dispatcher's context, every other handler the context its
\* predecessor gave to next.  The context a deriving handler made is a child
\* of the one it received and is held by no frame upstream of it, and the
\* context a handler holds after next has returned is the one it held before.
C16_ContextFlow ==
    \A r \in Reqs :
        /\ \A k \in 2..Depth(r) :
              LET f == stack[r][k]
                  caller == stack[r][k - 1]
              IN  /\ (f.fn = "middleware" /\ caller.fn = "middleware")
                     => /\ caller.pc = "after"
                        /\ f.m = caller.m.next[1]
                        /\ f.ctx = caller.nctx
                  /\ (f.fn = "middleware" /\ caller.fn = "Camillo")
                     => /\ f.m = camillo[caller.inst].middleware
                        /\ f.ctx = caller.ctx
        /\ \A k \in 1..Depth(r) :
              LET f == stack[r][k]
              IN  (f.fn = "middleware" /\ f.pc = "after" /\ f.m.handler.kind = "derive")
                  => /\ f.nctx # f.ctx
                     /\ ctxTab[f.nctx].parent = f.ctx
                     /\ \A j \in 1..k : stack[r][j].ctx # f.nctx
        /\ \A k \in 1..Len(trace[r]) :
              trace[r][k].ev = "after"
              => \E j \in 1..(k - 1) :
                    /\ trace[r][j].ev = "before"
                    /\ trace[r][j].inst = trace[r][k].inst
                    /\ trace[r][j].id = trace[r][k].id
                    /\ trace[r][j].ctx = trace[r][k].ctx

\* A handler downstream of a deriving handler holds the derived context, and
\* the deriving handler has finished its after phase with the one it received.
C16_Witness ==
    /\ N = 2 /\ HandlerAt(1).kind = "derive" /\ HandlerAt(2).kind = "pass"
    /\ stat["r1"] = "done"
    /\ \E b1, b2, a1 \in 1..Len(trace["r1"]) :
          /\ b1 < b2 /\ b2 < a1
          /\ trace["r1"][b1].ev = "before" /\ trace["r1"][b1].id = 1
          /\ trace["r1"][b2].ev = "before" /\ trace["r1"][b2].id = 2
          /\ trace["r1"][a1].ev = "after" /\ trace["r1"][a1].id = 1
          /\ trace["r1"][b2].ctx # trace["r1"][b1].ctx
          /\ trace["r1"][a1].ctx = trace["r1"][b1].ctx

(***************************************************************************)
(* C12: the chain and the handler list                                     *)
(***************************************************************************)
\* The handlers of the nodes reached from node m, up to the terminal node.
RECURSIVE ListOf(_)
ListOf(m) ==
    IF m.handler \in {VoidHandler, NilHandler} \/ m.next = << >> THEN << >>
    ELSE <<m.handler>> \o ListOf(m.next[1])

Min(a, b) == IF a < b THEN a ELSE b

\* The chain of every instance is the one built from its handler list, the
\* list holds its handlers in the order they were given, and a dispatch runs
\* the nodes of a chain built from a list the current one extends, visiting
\* the handlers in list order.
C12_ChainIsBuilt ==
    /\ \A i \in DOMAIN camillo : camillo[i].middleware = build(camillo[i].handlers)
    /\ ListOf(camillo["n"].middleware) = camillo["n"].handlers
    /\ \A k \in 1..N : HandlerAt(k).id = k
    /\ \A r \in Reqs :
          /\ \A k \in 1..Depth(r) :
                LET f == stack[r][k]
                IN  (f.fn = "middleware" /\ f.inst = "n")
                    => IsPrefix(ListOf(f.m), SubSeq(camillo["n"].handlers, f.m.handler.id, N))
          /\ \A j, k \in 1..Len(trace[r]) :
                (/\ j < k
                 /\ trace[r][j].ev = "before" /\ trace[r][j].inst = "n"
                 /\ trace[r][k].ev = "before" /\ trace[r][k].inst = "n")
                => trace[r][j].id < trace[r][k].id

\* A step changes the handler list only by appending one handler to it, and
\* leaves the nodes alone that a dispatch in progress runs.
C12_AppendOnly ==
    /\ camillo'["n"].handlers # camillo["n"].handlers
       => \E h \in LaterHandlers(N + 1) : camillo'["n"].handlers = Append(camillo["n"].handlers, h)
    /\ \A r \in Reqs : \A k \in 1..Min(Depth(r), Len(stack'[r])) :
          stack'[r][k].m = stack[r][k].m

\* C12: after New and any Use calls the chain dispatched is the chain built
\* from the current handler list, which lists the constructor handlers and
\* then the added ones in the order added; a dispatch visits them in that
\* order, and appending changes no node of a chain built earlier.
C12_UseRebuilds == []C12_ChainIsBuilt /\ [][C12_AppendOnly]_vars

\* A handler was appended while a dispatch was running a chain built earlier.
C12_Witness ==
    /\ stat["r1"] = "running" /\ Depth("r1") > 1
    /\ stack["r1"][2].fn = "middleware"
    /\ Len(ListOf(stack["r1"][2].m)) < N
    /\ ListOf(camillo["n"].middleware) = camillo["n"].handlers

(***************************************************************************)
(* C13: store entries and requests in progress                             *)
(***************************************************************************)
\* C13: the store holds an entry for a request only while a dispatch or a
\* handler invocation for it is in progress; once every dispatch, nested
\* dispatch and invocation of a Wrap-adapted handler has completed, the
\* store holds no entry for the request.
C13_NoEntryWhenIdle ==
    \A r \in Reqs : stat[r] # "running" => ~HasEntry(r)

(***************************************************************************)
(* C17: the stack store                                                    *)
(***************************************************************************)
\* Every entry of the stack store holds at least one context, and Get
\* returns the last context of the request's stack.
C17_NoEmptyStack ==
    \A q \in Reqs :
        /\ (stackStore.made /\ q \in DOMAIN stackStore.contexts)
           => Len(stackStore.contexts[q]) > 0
        /\ StackGet(stackStore, q) = TopOf(StackOf(stackStore, q))

\* Push puts its context on top of the request's stack; a Pop that matches
\* takes the top off, so that Get returns the context pushed before it, and
\* the entry is gone exactly when nothing is left; no call touches the stack
\* of another request.
C17_PushPop ==
    LET old == StackOf(stackStore, last'.req)
        new == StackOf(stackStore', last'.req)
    IN  /\ (last'.op = "Push" /\ last' # last)
           => /\ new = Append(old, last'.ctx)
              /\ StackGet(stackStore', last'.req) = last'.ctx
        /\ (last'.op = "Pop" /\ last' # last /\ Len(old) > 0 /\ old[Len(old)] = last'.ctx)
           => /\ ~last'.panicked
              /\ new = SubSeq(old, 1, Len(old) - 1)
              /\ StackGet(stackStore', last'.req)
                    = IF Len(old) = 1 THEN NilCtx ELSE old[Len(old) - 1]
              /\ (last'.req \in DOMAIN stackStore'.contexts) <=> Len(old) > 1
        /\ \A q \in Reqs \ {last'.req} : StackOf(stackStore', q) = StackOf(stackStore, q)

\* C17: in the stack store Get returns the most recently pushed context not
\* yet popped, a matching Pop re-exposes the context pushed before it, and
\* the request's entry is deleted exactly when its stack becomes empty.
C17_StackDiscipline == []C17_NoEmptyStack /\ [][C17_PushPop]_vars

\* After two pushes a matching Pop has re-exposed the first context.
C17_Witness ==
    /\ last.op = "Pop" /\ ~last.panicked /\ last.top = last.ctx /\ last.depth = 2
    /\ StackGet(stackStore, last.req) \in StoreCtxs \ {last.ctx}

(***************************************************************************)
(* C18, C19: the stores under their lock                                   *)
(***************************************************************************)
\* The goroutine whose store call took the step.
Stepped(g) == ops'[g] # ops[g]

\* While a call of Add or Remove is between its Lock and its Unlock, also
\* while Add creates the map, no other call is inside its critical section:
\* calls that overlap are all Get.
C18_WritersAlone ==
    \A g, h \in Procs :
        (g # h /\ InCS(g) /\ InCS(h)) => (ops[g].op = "Get" /\ ops[h].op = "Get")

\* The single-slot store changes only in a step of a call of Add or Remove
\* that holds the lock; a step of Get leaves it as it is.
C18_GetReadsOnly ==
    /\ sharedContextStore' # sharedContextStore
       => \E g \in Procs : Stepped(g) /\ InCS(g) /\ ops[g].op \in {"Add", "Remove"}
                           /\ mtx["slot"].writer = g
    /\ \A g \in Procs : (Stepped(g) /\ ops[g].op = "Get")
                        => sharedContextStore' = sharedContextStore

\* C18: under every interleaving of concurrent Get, Add and Remove calls no
\* mutating call is in its critical section together with another call,
\* only Get calls overlap, and Get never modifies the store.
C18_MutualExclusion == []C18_WritersAlone /\ [][C18_GetReadsOnly]_vars

\* Two Get calls overlap while an Add waits for the lock, the map having
\* been created by an earlier Add.
C18_Witness ==
    /\ sharedContextStore.made
    /\ \E g, h, w \in Procs :
          /\ g # h /\ InCS(g) /\ InCS(h)
          /\ ops[g].op = "Get" /\ ops[h].op = "Get"
          /\ ops[w].op = "Add" /\ ops[w].pc = "lock"

\* Nobody is between a lock and its unlock of the stack store.
StackQuiet == \A g \in Procs : ~InCS(g)

\* C19: when Pop panics on an unbalanced call the stack store is as it was
\* before the call, and the panic releases the lock on its way out: the
\* goroutine that panicked holds nothing, and the lock is free whenever no
\* call is in its critical section, so the calls of other goroutines go on.
C19_PanicLeavesStoreAndLock ==
    /\ \A g \in Procs :
          /\ ops[g].pc = "panic" => stackStore = ops[g].before
          /\ ops[g].pc = "crashed"
             => mtx["stack"].writer # g /\ g \notin mtx["stack"].readers
    /\ StackQuiet => mtx["stack"] = Unlocked
    /\ \A g \in Procs : mtx["stack"].writer = g => InCS(g)

\* After a Pop of one goroutine panicked, another goroutine's Push for the
\* other request holds the lock and has pushed.
C19_Witness ==
    /\ ops["g1"].pc = "crashed"
    /\ ops["g2"].op = "Push" /\ ops["g2"].pc = "out" /\ mtx["stack"].writer = "g2"
    /\ StackGet(stackStore, ops["g2"].req) = ops["g2"].ctx

(***************************************************************************)
(* C20: cancellation and the base context                                  *)
(***************************************************************************)
\* The root is never cancelled; the context of a fresh dispatch is a child
\* of the instance's base, or of the root when the instance has none, and
\* when the dispatch hands it to the chain it is done only if the base is.
C20_FreshFromBase ==
    /\ Background \notin cancelled
    /\ \A r \in Reqs : \A k \in 1..Depth(r) :
          LET f == stack[r][k]
          IN  (f.fn = "Camillo" /\ f.own)
              => /\ f.ctx \notin {NilCtx, Background, UserBase}
                 /\ ctxTab[f.ctx].parent = BaseOf(f.inst)
                 /\ camillo[f.inst].ctx = NilCtx => ctxTab[f.ctx].parent = Background
                 /\ f.pc = "run"
                    => (Done(ctxTab, cancelled, f.ctx)
                          <=> Done(ctxTab, cancelled, BaseOf(f.inst)))

\* A step cancels either the program's base, by the program itself, or the
\* one context the fresh dispatch that exits had derived.
C20_CancelsOwn ==
    cancelled' # cancelled
    => \/ cancelled' = cancelled \cup {UserBase} /\ stack' = stack
       \/ \E r \in Reqs :
             /\ Depth(r) > 0 /\ stack'[r] = Popped(r)
             /\ Top(r).fn = "Camillo" /\ Top(r).own
             /\ Top(r).ctx \notin {Background, UserBase}
             /\ cancelled' = cancelled \cup {Top(r).ctx}

\* C20: a dispatch cancels only the context it derived, never the base of
\* the instance: after completed dispatches a new fresh dispatch hands its
\* chain a context that is not cancelled unless the base was cancelled from
\* outside, derived from the root when no base is configured.
C20_BaseSurvives == []C20_FreshFromBase /\ [][C20_CancelsOwn]_vars

\* After a dispatch has completed and cancelled its context, a fresh dispatch
\* of an instance with a base of its own is about to run its chain with a
\* live context.
C20_Witness ==
    /\ camillo["n"].ctx = UserBase
    /\ stat["r1"] = "done" /\ cancelled # {}
    /\ At("r2", "Camillo", "run") /\ Top("r2").own
    /\ ~Done(ctxTab, cancelled, Top("r2").ctx)

====
